---- MODULE Spec2Model ----
(***************************************************************************)
(* The clock registry of clock_project/main.py: a doubly circular linked   *)
(* list of ClockNode objects (CircularClockList), the per-clock manual     *)
(* time offset, and the queries computed over the ring.                    *)
(*                                                                         *)
(* Object references are node identifiers 1, 2, ... into the heap `nodes`  *)
(* (a node's identifier is its allocation order); None is 0.  Instants are *)
(* whole seconds of UTC; a timedelta is a whole number of seconds.         *)
(*                                                                         *)
(* current_clock_index is the module's global cursor.  workers holds the   *)
(* request each thread of the server is handling, with the line it has     *)
(* reached and its local variables; navigated counts the answered          *)
(* next and previous requests.                                             *)
(***************************************************************************)
EXTENDS Integers, Sequences, FiniteSets, TLC

VARIABLES clock_list, now, ticks, result, current_clock_index, workers, navigated

vars == <<clock_list, now, ticks, result, current_clock_index, workers, navigated>>

----------------------------------------------------------------------------
(* Bounds of the model *)

\* largest number of records the ring is grown to
MaxClocks == 3

\* set_time_offset is called with hours in -MaxOffsetHours .. MaxOffsetHours
MaxOffsetHours == 1

\* largest number of advances of the system clock in one behaviour
MaxTicks == 2

\* number of threads handling requests at the same time
MaxWorkers == 2

\* largest number of next and previous requests the threads are sent
MaxRequests == 3

----------------------------------------------------------------------------
(* Values *)

None == 0

\* the (city, timezone, image) triples the module appends at start-up
Seeds ==
  << [city_name |-> "Colombia", timezone_str |-> "America/Bogota",
      image_filename |-> "clock_colombia.png"],
     [city_name |-> "United Kingdom", timezone_str |-> "Europe/London",
      image_filename |-> "clock_uk.png"],
     [city_name |-> "China", timezone_str |-> "Asia/Shanghai",
      image_filename |-> "clock_china.png"] >>

\* an append whose timezone identifier pytz does not know
BadSeed ==
  [city_name |-> "Atlantis", timezone_str |-> "Mars/Olympus",
   image_filename |-> "clock_atlantis.png"]

AppendInputs == {Seeds[i] : i \in 1..Len(Seeds)} \cup {BadSeed}

\* the indices the callers pass: every valid one, and invalid ones on both sides
IndexArgs(L) == -1 .. L.clock_count

\* minutes arguments of set_time_offset
MinuteArgs == {-60, -30, 0}

HourArgs == -MaxOffsetHours .. MaxOffsetHours

\* instants (seconds of UTC) the system clock starts at:
\* 00:00:00, 10:59:59 (05:59:59 in Bogota, 18:59:59 in Shanghai),
\* 21:59:59 (16:59:59 in Bogota, 05:59:59 in Shanghai)
StartTimes == {0, 39599, 79199}

\* advances of the system clock between two reads of it
TickSteps == {1, 3600}

----------------------------------------------------------------------------
(* pytz and datetime *)

\* pytz.timezone(timezone_str) raises UnknownTimeZoneError for other names
pytz_timezone_known(timezone_str) ==
  timezone_str \in {"America/Bogota", "Europe/London", "Asia/Shanghai"}

\* UTC offset, in seconds, of datetime.now(timezone), London being on winter time
utcoffset(timezone_str) ==
  CASE timezone_str = "America/Bogota" -> -18000
    [] timezone_str = "Europe/London" -> 0
    [] timezone_str = "Asia/Shanghai" -> 28800

\* timedelta(hours=hours, minutes=minutes), in seconds
timedelta(hours, minutes) == hours * 3600 + minutes * 60

\* the hour, minute and second fields of a local instant
hour_of(t) == (t \div 3600) % 24
minute_of(t) == (t \div 60) % 60
second_of(t) == t % 60

----------------------------------------------------------------------------
(* ClockNode *)

ClockNode_init(city_name, timezone_str, image_filename) ==
  [city_name |-> city_name,
   timezone_str |-> timezone_str,
   image_filename |-> image_filename,
   next_clock |-> None,
   previous_clock |-> None,
   time_offset |-> timedelta(0, 0),
   is_modified |-> FALSE]

\* the local instant the node shows when the system clock reads t
get_current_time(node, t) == t + utcoffset(node.timezone_str) + node.time_offset

\* lines 29-32, the record's next link turned to its previous record as well
set_time_offset_relinks(node, hours, minutes) ==
  [node EXCEPT !.time_offset = timedelta(hours, minutes),
               !.is_modified = (hours # 0 \/ minutes # 0),
               !.next_clock = node.previous_clock]

\* lines 29-32
set_time_offset(node, hours, minutes) ==
  [node EXCEPT !.time_offset = timedelta(hours, minutes),
               !.is_modified = (hours # 0 \/ minutes # 0)]

\* reset_time_offset without line 37: the flag is left as it was
reset_time_offset_keeps_flag(node) ==
  [node EXCEPT !.time_offset = timedelta(0, 0)]

\* lines 34-37
reset_time_offset(node) ==
  [node EXCEPT !.time_offset = timedelta(0, 0), !.is_modified = FALSE]

\* lines 39-42, the system clock reading t
is_daytime(node, t) ==
  LET current_hour == hour_of(get_current_time(node, t))
  IN 6 <= current_hour /\ current_hour < 18

\* line 62: int(total_seconds() // 3600), a floor division
offset_hours(time_offset) == time_offset \div 3600

\* line 63: int((total_seconds() % 3600) // 60), the remainder being >= 0
offset_minutes(time_offset) == (time_offset % 3600) \div 60

\* line 70 without the % 12: the hand turns once in 24 hours' worth of degrees
calculate_hour_angle_no_mod(time) == hour_of(time) * 60 + minute_of(time)

\* lines 66-71, in half degrees (minute * 0.5 is a whole number of them)
calculate_hour_angle(time) == (hour_of(time) % 12) * 60 + minute_of(time)

\* lines 73-76, in degrees
calculate_minute_angle(time) == minute_of(time) * 6

\* lines 78-81, in degrees
calculate_second_angle(time) == second_of(time) * 6

\* strftime('%I:%M %p'): the hour of the 12-hour clock, the minute, AM or PM
strftime_IMp(time) ==
  << IF hour_of(time) % 12 = 0 THEN 12 ELSE hour_of(time) % 12,
     minute_of(time),
     IF hour_of(time) < 12 THEN "AM" ELSE "PM" >>

\* lines 44-64: get_current_time reads the system clock at t1, is_daytime at t2;
\* date is the day counted from the day of instant 0, day_of_week its weekday
\* counted from that day's
get_clock_data(node, t1, t2) ==
  LET current_time == get_current_time(node, t1)
  IN [city |-> node.city_name,
      timezone |-> node.timezone_str,
      hour |-> hour_of(current_time),
      minute |-> minute_of(current_time),
      second |-> second_of(current_time),
      is_day |-> is_daytime(node, t2),
      image |-> node.image_filename,
      hour_angle |-> calculate_hour_angle(current_time),
      minute_angle |-> calculate_minute_angle(current_time),
      second_angle |-> calculate_second_angle(current_time),
      formatted_time |-> strftime_IMp(current_time),
      date |-> current_time \div 86400,
      day_of_week |-> (current_time \div 86400) % 7,
      is_modified |-> node.is_modified,
      offset_hours |-> offset_hours(node.time_offset),
      offset_minutes |-> offset_minutes(node.time_offset)]

----------------------------------------------------------------------------
(* CircularClockList *)

CircularClockList_init == [nodes |-> <<>>, head_clock |-> None, clock_count |-> 0]

\* link_first without line 95: the first node's previous_clock stays None
link_first_no_previous(nodes, new) ==
  [nodes EXCEPT ![new].next_clock = new]

\* lines 94-96: the first node links to itself and becomes the head
link_first(nodes, new) ==
  [nodes EXCEPT ![new].next_clock = new, ![new].previous_clock = new]

\* link_last without line 103: the head still points back at the old tail
link_last_no_back(nodes, head, new) ==
  LET tail_clock == nodes[head].previous_clock
      n1 == [nodes EXCEPT ![tail_clock].next_clock = new]
      n2 == [n1 EXCEPT ![new].previous_clock = tail_clock]
  IN [n2 EXCEPT ![new].next_clock = head]

\* link_last linking the new node right after the head instead of before it
link_after_head(nodes, head, new) ==
  LET second == nodes[head].next_clock
      n1 == [nodes EXCEPT ![head].next_clock = new]
      n2 == [n1 EXCEPT ![new].previous_clock = head]
      n3 == [n2 EXCEPT ![new].next_clock = second]
  IN [n3 EXCEPT ![second].previous_clock = new]

\* lines 98-103: the new node is linked between the tail and the head
link_last(nodes, head, new) ==
  LET tail_clock == nodes[head].previous_clock
      n1 == [nodes EXCEPT ![tail_clock].next_clock = new]
      n2 == [n1 EXCEPT ![new].previous_clock = tail_clock]
      n3 == [n2 EXCEPT ![new].next_clock = head]
  IN [n3 EXCEPT ![head].previous_clock = new]

\* line 105 adding two
count_after_add_twice(clock_count) == clock_count + 2

\* line 105
count_after_add(clock_count) == clock_count + 1

\* add_clock on the list L, when the node's construction succeeds
add_clock_linked(L, city_name, timezone_str, image_filename) ==
  LET new == Len(L.nodes) + 1
      allocated == Append(L.nodes, ClockNode_init(city_name, timezone_str, image_filename))
  IN IF L.head_clock = None
     THEN [nodes |-> link_first(allocated, new),
           head_clock |-> new,
           clock_count |-> count_after_add(L.clock_count)]
     ELSE [nodes |-> link_last(allocated, L.head_clock, new),
           head_clock |-> L.head_clock,
           clock_count |-> count_after_add(L.clock_count)]

\* whether ClockNode(...) on line 91 raises (pytz.timezone on line 17)
add_clock_raises(timezone_str) == ~pytz_timezone_known(timezone_str)

\* add_clock counting the record before constructing it
add_clock_list_counts_first(L, city_name, timezone_str, image_filename) ==
  IF add_clock_raises(timezone_str)
  THEN [L EXCEPT !.clock_count = @ + 1]
  ELSE add_clock_linked(L, city_name, timezone_str, image_filename)

\* the list after add_clock: the exception of line 91 leaves before any link is made
add_clock_list(L, city_name, timezone_str, image_filename) ==
  IF add_clock_raises(timezone_str)
  THEN L
  ELSE add_clock_linked(L, city_name, timezone_str, image_filename)

\* the node reached from node c by following next_clock k times (lines 139-141)
RECURSIVE follow_next(_, _, _)
follow_next(nodes, c, k) ==
  IF k = 0 \/ c = None THEN c ELSE follow_next(nodes, nodes[c].next_clock, k - 1)

\* line 136 with > for >=
index_invalid_off_by_one(L, index) ==
  L.head_clock = None \/ index < 0 \/ index > L.clock_count

\* line 136
index_invalid(L, index) ==
  L.head_clock = None \/ index < 0 \/ index >= L.clock_count

get_clock_at_index(L, index) ==
  IF index_invalid(L, index) THEN None ELSE follow_next(L.nodes, L.head_clock, index)

\* line 172 with >= for >
direction_of_zero_ahead(diff) == IF diff >= 0 THEN "ahead" ELSE "behind"

\* line 162: round(diff, 2), in hundredths of an hour, of a diff of diff_minutes
\* sixtieths; 100 * diff is never half-way between two integers
round_2(diff_minutes) == (10 * diff_minutes + 3) \div 6

\* line 172
direction_of(diff) == IF diff > 0 THEN "ahead" ELSE "behind"

\* calculate_time_difference with the two clock reads at t1 and t2: <<>> is None,
\* diff_minutes is 60 * diff of line 157, difference_hours is in hundredths, and
\* of difference_text only its last word is kept, as direction (lines 168-170
\* compute its digits in floating point)
calculate_time_difference(L, index1, index2, t1, t2) ==
  LET clock1 == get_clock_at_index(L, index1)
      clock2 == get_clock_at_index(L, index2)
  IN IF clock1 = None \/ clock2 = None
     THEN <<>>
     ELSE LET time1 == get_current_time(L.nodes[clock1], t1)
              time2 == get_current_time(L.nodes[clock2], t2)
              diff_minutes == 60 * (hour_of(time2) - hour_of(time1))
                              + (minute_of(time2) - minute_of(time1))
          IN << [clock1 |-> L.nodes[clock1].city_name,
                 clock2 |-> L.nodes[clock2].city_name,
                 diff_minutes |-> diff_minutes,
                 difference_hours |-> round_2(diff_minutes),
                 direction |-> direction_of(diff_minutes)] >>

\* lines 124-130: the number of the first k records, walking from current, whose
\* is_daytime() is true, the i-th call reading the system clock at reads[i]
RECURSIVE day_count_loop(_, _, _, _)
day_count_loop(L, current_clock, k, reads) ==
  IF k > L.clock_count
  THEN 0
  ELSE (IF is_daytime(L.nodes[current_clock], reads[k]) THEN 1 ELSE 0)
       + day_count_loop(L, L.nodes[current_clock].next_clock, k + 1, reads)

\* line 132 with // for /: the half is rounded down
theme_of_floor_half(day_count, clock_count) ==
  IF day_count >= clock_count \div 2 THEN "day" ELSE "night"

\* line 132: day_count >= clock_count / 2, a true division, compared exactly
theme_of(day_count, clock_count) ==
  IF 2 * day_count >= clock_count THEN "day" ELSE "night"

\* lines 120-132
get_dominant_theme(L, reads) ==
  IF L.head_clock = None
  THEN "day"
  ELSE theme_of(day_count_loop(L, L.head_clock, 1, reads), L.clock_count)

\* line 194: current_time.replace(hour=hour, minute=0, second=0), the date kept
replace_hour(time, hour) == (time \div 86400) * 86400 + hour * 3600

\* line 203 with > for >= : the end hour counts as a business hour
out_of_range_end_included(hour, start_hour, end_hour) ==
  hour < start_hour \/ hour > end_hour

\* line 203
out_of_range(hour, start_hour, end_hour) ==
  hour < start_hour \/ hour >= end_hour

\* lines 190-206 for one hour: the entries of the records in ring order, the
\* record visited i-th reading the system clock at reads[hour][i]
times_for_hour(L, hour, reads) ==
  [i \in 1..L.clock_count |->
     LET current_clock == follow_next(L.nodes, L.head_clock, i - 1)
         current_time == get_current_time(L.nodes[current_clock], reads[hour][i])
         test_time == replace_hour(current_time, hour)
     IN [city |-> L.nodes[current_clock].city_name,
         time |-> strftime_IMp(test_time),
         hour |-> hour_of(test_time)]]

\* lines 187-208: all_in_range after the inner loop
all_in_range(times, start_hour, end_hour) ==
  \A i \in 1..Len(times) : ~out_of_range(times[i].hour, start_hour, end_hour)

\* lines 186-213, from the given hour on
RECURSIVE optimal_times_from(_, _, _, _, _)
optimal_times_from(L, hour, start_hour, end_hour, reads) ==
  IF hour >= 24
  THEN <<>>
  ELSE LET times == times_for_hour(L, hour, reads)
       IN (IF all_in_range(times, start_hour, end_hour)
           THEN <<[reference_hour |-> hour, times |-> times, quality |-> "excellent"]>>
           ELSE <<>>)
          \o optimal_times_from(L, hour + 1, start_hour, end_hour, reads)

\* lines 179-215
find_optimal_meeting_time(L, start_hour, end_hour, reads) ==
  IF L.head_clock = None
  THEN <<>>
  ELSE optimal_times_from(L, 0, start_hour, end_hour, reads)

\* lines 114-116: the snapshots of the records from the k-th on, walking from
\* current_clock; the j-th get_clock_data() reads the system clock at
\* reads[2j - 1] (line 46) and reads[2j] (line 53)
RECURSIVE clocks_data_loop(_, _, _, _)
clocks_data_loop(L, current_clock, k, reads) ==
  IF k > L.clock_count
  THEN <<>>
  ELSE <<get_clock_data(L.nodes[current_clock], reads[2 * k - 1], reads[2 * k])>>
       \o clocks_data_loop(L, L.nodes[current_clock].next_clock, k + 1, reads)

\* lines 107-118
get_all_clocks_data(L, reads) ==
  IF L.head_clock = None
  THEN <<>>
  ELSE clocks_data_loop(L, L.head_clock, 1, reads)

\* lines 225-231 with next and previous taken for each other
structure_entry_links_swapped(L, i, current_clock) ==
  [index |-> i,
   city |-> L.nodes[current_clock].city_name,
   next |-> L.nodes[L.nodes[current_clock].previous_clock].city_name,
   previous |-> L.nodes[L.nodes[current_clock].next_clock].city_name,
   is_head |-> current_clock = L.head_clock]

\* lines 225-231: ClockNode defines no __eq__, so line 230 compares identities
structure_entry(L, i, current_clock) ==
  [index |-> i,
   city |-> L.nodes[current_clock].city_name,
   next |-> L.nodes[L.nodes[current_clock].next_clock].city_name,
   previous |-> L.nodes[L.nodes[current_clock].previous_clock].city_name,
   is_head |-> current_clock = L.head_clock]

\* lines 224-232: the entries from index i on, walking from current_clock
RECURSIVE structure_loop(_, _, _)
structure_loop(L, current_clock, i) ==
  IF i >= L.clock_count
  THEN <<>>
  ELSE <<structure_entry(L, i, current_clock)>>
       \o structure_loop(L, L.nodes[current_clock].next_clock, i + 1)

\* lines 217-234 with an entry made for the head of a ring that has none
get_list_structure_head_entry(L) ==
  IF L.head_clock = None
  THEN <<[index |-> 0, city |-> "", next |-> "", previous |-> "", is_head |-> TRUE]>>
  ELSE structure_loop(L, L.head_clock, 0)

\* lines 217-234
get_list_structure(L) ==
  IF L.head_clock = None
  THEN <<>>
  ELSE structure_loop(L, L.head_clock, 0)

----------------------------------------------------------------------------
(* The system clock *)

\* the instants a later read of the system clock may return
later_reads(t, n) == {t} \cup (IF n < MaxTicks THEN {t + 1} ELSE {})

Tick ==
  /\ ticks < MaxTicks
  /\ \E d \in TickSteps : now' = now + d
  /\ ticks' = ticks + 1
  /\ UNCHANGED <<clock_list, result, current_clock_index, workers, navigated>>

----------------------------------------------------------------------------
(* Operations on the ring *)

NoResult == [op |-> "none", args |-> <<>>, raised |-> "none", value |-> <<>>]

\* the threads of the server
Workers == 1 .. MaxWorkers

\* a thread that handles no request
Idle == [op |-> "idle", pc |-> "idle", args |-> <<>>, clock |-> None, reads |-> <<>>,
         data |-> <<>>]

\* line 252, no request being handled and none answered
NoRequests ==
  /\ current_clock_index = 0
  /\ workers = [w \in Workers |-> Idle]
  /\ navigated = [next |-> 0, previous |-> 0]

add_clock ==
  /\ \E s \in AppendInputs :
       /\ Len(clock_list.nodes) < MaxClocks \/ add_clock_raises(s.timezone_str)
       /\ clock_list' = add_clock_list(clock_list, s.city_name, s.timezone_str,
                                       s.image_filename)
       /\ result' = [op |-> "add_clock",
                     args |-> <<s.city_name, s.timezone_str, s.image_filename>>,
                     raised |-> IF add_clock_raises(s.timezone_str)
                                THEN "UnknownTimeZoneError" ELSE "none",
                     value |-> <<>>]
  /\ UNCHANGED <<now, ticks, current_clock_index, workers, navigated>>

at ==
  /\ \E index \in IndexArgs(clock_list) :
       result' = [op |-> "get_clock_at_index", args |-> <<index>>, raised |-> "none",
                  value |-> <<get_clock_at_index(clock_list, index)>>]
  /\ UNCHANGED <<clock_list, now, ticks, current_clock_index, workers, navigated>>

difference ==
  /\ \E index1, index2 \in IndexArgs(clock_list) :
     \E t2 \in later_reads(now, ticks) :
       /\ result' = [op |-> "calculate_time_difference", args |-> <<index1, index2>>,
                     raised |-> "none",
                     value |-> calculate_time_difference(clock_list, index1, index2,
                                                         now, t2)]
       /\ now' = t2
       /\ ticks' = IF t2 = now THEN ticks ELSE ticks + 1
  /\ UNCHANGED <<clock_list, current_clock_index, workers, navigated>>

\* the ring after lines 241-245
RECURSIVE seeded(_)
seeded(k) ==
  IF k = 0
  THEN CircularClockList_init
  ELSE add_clock_list(seeded(k - 1), Seeds[k].city_name, Seeds[k].timezone_str,
                      Seeds[k].image_filename)

\* lines 344-367, called with hours in Hours and minutes in Minutes: the three
\* reads of the system clock (lines 46, 53 and 360) are at now, t2 and t3
update_clock_time_with(Hours, Minutes) ==
  /\ UNCHANGED <<current_clock_index, workers, navigated>>
  /\ \E index \in IndexArgs(clock_list), hours_offset \in Hours, minutes_offset \in Minutes :
     \E t2 \in later_reads(now, ticks) :
     \E t3 \in later_reads(t2, ticks + (t2 - now)) :
       LET clock == get_clock_at_index(clock_list, index)
           args == <<index, hours_offset, minutes_offset>>
       IN IF clock = None
          THEN /\ result' = [op |-> "update_clock_time", args |-> args, raised |-> "none",
                             value |-> <<[status |-> 400, error |-> "Invalid clock index"]>>]
               /\ UNCHANGED <<clock_list, now, ticks>>
          ELSE LET node == set_time_offset(clock_list.nodes[clock], hours_offset,
                                           minutes_offset)
               IN /\ clock_list' = [clock_list EXCEPT !.nodes[clock] = node]
                  /\ result' = [op |-> "update_clock_time", args |-> args, raised |-> "none",
                                value |-> <<[status |-> 200,
                                             success |-> TRUE,
                                             clock |-> get_clock_data(node, now, t2),
                                             theme |-> IF is_daytime(node, t3)
                                                       THEN "day" ELSE "night"]>>]
                  /\ now' = t3
                  /\ ticks' = ticks + (t3 - now)

update_clock_time == update_clock_time_with(HourArgs, MinuteArgs)

\* lines 370-391
reset_clock_time ==
  /\ UNCHANGED <<current_clock_index, workers, navigated>>
  /\ \E index \in IndexArgs(clock_list) :
     \E t2 \in later_reads(now, ticks) :
     \E t3 \in later_reads(t2, ticks + (t2 - now)) :
       LET clock == get_clock_at_index(clock_list, index)
       IN IF clock = None
          THEN /\ result' = [op |-> "reset_clock_time", args |-> <<index>>, raised |-> "none",
                             value |-> <<[status |-> 400, error |-> "Invalid clock index"]>>]
               /\ UNCHANGED <<clock_list, now, ticks>>
          ELSE LET node == reset_time_offset(clock_list.nodes[clock])
               IN /\ clock_list' = [clock_list EXCEPT !.nodes[clock] = node]
                  /\ result' = [op |-> "reset_clock_time", args |-> <<index>>, raised |-> "none",
                                value |-> <<[status |-> 200,
                                             success |-> TRUE,
                                             clock |-> get_clock_data(node, now, t2),
                                             theme |-> IF is_daytime(node, t3)
                                                       THEN "day" ELSE "night"]>>]
                  /\ now' = t3
                  /\ ticks' = ticks + (t3 - now)

\* lines 394-404: the reads of the system clock of lines 153 and 154 are kept in args
compare_timezones ==
  /\ \E index1, index2 \in IndexArgs(clock_list) :
     \E t2 \in later_reads(now, ticks) :
       LET comparison == calculate_time_difference(clock_list, index1, index2, now, t2)
       IN /\ result' = [op |-> "compare_timezones",
                        args |-> <<index1, index2, <<now, t2>>>>,
                        raised |-> "none",
                        value |-> IF comparison = <<>>
                                  THEN <<[status |-> 400,
                                          error |-> "Invalid clock indices"]>>
                                  ELSE <<[status |-> 200,
                                          comparison |-> comparison[1]]>>]
          /\ now' = t2
          /\ ticks' = ticks + (t2 - now)
  /\ UNCHANGED <<clock_list, current_clock_index, workers, navigated>>

\* the (start, end) arguments of the meeting search: the defaults, start at and
\* after end, the whole day and more, the first and the last hour, none
MeetingArgs ==
  {<<9, 17>>, <<17, 9>>, <<9, 9>>, <<0, 24>>, <<-1, 25>>, <<23, 24>>, <<0, 1>>, <<-1, 0>>}

\* the instants of the reads of a meeting search, one for each hour and record:
\* the clock may advance by a second before the reads of any one hour
meeting_reads(t, n, used) ==
  {[h \in 0..23 |-> [i \in 1..n |-> IF h < j THEN t ELSE t + 1]] :
     j \in (IF used < MaxTicks THEN {9, 24} ELSE {24})}

\* lines 407-417
get_meeting_times ==
  /\ \E hours \in MeetingArgs :
     \E reads \in meeting_reads(now, clock_list.clock_count, ticks) :
       LET start_hour == hours[1]
           end_hour == hours[2]
           meeting_times == find_optimal_meeting_time(clock_list, start_hour, end_hour,
                                                      reads)
           last == IF clock_list.clock_count = 0 THEN now
                   ELSE reads[23][clock_list.clock_count]
       IN /\ result' = [op |-> "get_meeting_times", args |-> <<start_hour, end_hour>>,
                        raised |-> "none",
                        value |-> <<[status |-> 200,
                                     optimal_times |-> meeting_times,
                                     total_options |-> Len(meeting_times)]>>]
          /\ now' = last
          /\ ticks' = ticks + (last - now)
  /\ UNCHANGED <<clock_list, current_clock_index, workers, navigated>>

\* the instants of n reads of the system clock in a row: the clock may advance by
\* a second before any one of them
read_instants(t, n, used) ==
  {[i \in 1..n |-> IF i < j THEN t ELSE t + 1] :
     j \in (IF used < MaxTicks THEN 1 ELSE n + 1) .. (n + 1)}

\* lines 120-132; args holds the instants the calls of is_daytime() read
dominant_theme ==
  /\ \E reads \in read_instants(now, clock_list.clock_count, ticks) :
       LET last == IF reads = <<>> THEN now ELSE reads[Len(reads)]
       IN /\ result' = [op |-> "get_dominant_theme", args |-> <<reads>>, raised |-> "none",
                        value |-> <<get_dominant_theme(clock_list, reads)>>]
          /\ now' = last
          /\ ticks' = ticks + (last - now)
  /\ UNCHANGED <<clock_list, current_clock_index, workers, navigated>>

\* line 302 without the % clock_count
next_index_no_wrap(index, clock_count) == index + 1

\* line 302
next_index(index, clock_count) == (index + 1) % clock_count

\* line 328; Python's % takes the sign of the divisor
previous_index(index, clock_count) == (index - 1) % clock_count

\* the answer of lines 283-289, 308-315 and 334-341 with the snapshot clock_data,
\* made of a record read at the instants t1 and t2, and the theme read at t3; the
\* timestamp is the server's local time and is left out
clock_answer(node, t1, t2, t3, index, total) ==
  [status |-> 200,
   clock |-> get_clock_data(node, t1, t2),
   theme |-> IF is_daytime(node, t3) THEN "day" ELSE "night",
   index |-> index,
   total |-> total]

not_found == [status |-> 404, error |-> "No clocks available"]

\* lines 272-289: args holds the cursor as the request finds it
get_current_clock ==
  /\ \E reads \in read_instants(now, 3, ticks) :
       LET current_clock == get_clock_at_index(clock_list, current_clock_index)
       IN IF current_clock = None
          THEN /\ result' = [op |-> "get_current_clock", args |-> <<current_clock_index>>,
                             raised |-> "none", value |-> <<not_found>>]
               /\ UNCHANGED <<now, ticks>>
          ELSE /\ result' = [op |-> "get_current_clock", args |-> <<current_clock_index>>,
                             raised |-> "none",
                             value |-> <<clock_answer(clock_list.nodes[current_clock],
                                                      reads[1], reads[2], reads[3],
                                                      current_clock_index,
                                                      clock_list.clock_count)>>]
               /\ now' = reads[3]
               /\ ticks' = ticks + (reads[3] - now)
  /\ UNCHANGED <<clock_list, current_clock_index, workers, navigated>>

\* lines 292-315: args holds the cursor as the request finds it
get_next_clock ==
  /\ \E reads \in read_instants(now, 3, ticks) :
       LET current_clock == get_clock_at_index(clock_list, current_clock_index)
       IN IF current_clock = None
          THEN /\ result' = [op |-> "get_next_clock", args |-> <<current_clock_index>>,
                             raised |-> "none", value |-> <<not_found>>]
               /\ UNCHANGED <<now, ticks, current_clock_index>>
          ELSE LET index == next_index(current_clock_index, clock_list.clock_count)
                   next_clock == clock_list.nodes[current_clock].next_clock
               IN /\ current_clock_index' = index
                  /\ result' = [op |-> "get_next_clock", args |-> <<current_clock_index>>,
                                raised |-> "none",
                                value |-> <<clock_answer(clock_list.nodes[next_clock],
                                                         reads[1], reads[2], reads[3],
                                                         index, clock_list.clock_count)
                                            @@ [direction |-> "next"]>>]
                  /\ now' = reads[3]
                  /\ ticks' = ticks + (reads[3] - now)
  /\ UNCHANGED <<clock_list, workers, navigated>>

\* lines 318-341: args holds the cursor as the request finds it
get_previous_clock ==
  /\ \E reads \in read_instants(now, 3, ticks) :
       LET current_clock == get_clock_at_index(clock_list, current_clock_index)
       IN IF current_clock = None
          THEN /\ result' = [op |-> "get_previous_clock", args |-> <<current_clock_index>>,
                             raised |-> "none", value |-> <<not_found>>]
               /\ UNCHANGED <<now, ticks, current_clock_index>>
          ELSE LET index == previous_index(current_clock_index, clock_list.clock_count)
                   previous_clock == clock_list.nodes[current_clock].previous_clock
               IN /\ current_clock_index' = index
                  /\ result' = [op |-> "get_previous_clock",
                                args |-> <<current_clock_index>>, raised |-> "none",
                                value |-> <<clock_answer(clock_list.nodes[previous_clock],
                                                         reads[1], reads[2], reads[3],
                                                         index, clock_list.clock_count)
                                            @@ [direction |-> "previous"]>>]
                  /\ now' = reads[3]
                  /\ ticks' = ticks + (reads[3] - now)
  /\ UNCHANGED <<clock_list, workers, navigated>>

----------------------------------------------------------------------------
(* Requests handled by threads, a line at a time.  A thread at pc "31" is   *)
(* about to run line 31; reads holds what it has read of the record so far. *)

\* the arguments of the requests that meet on one record
RaceIndexArgs == {-1, 0}

RaceHours == {MaxOffsetHours}

\* lines 44-64 run by a thread at the instant t: reads holds self.time_offset as
\* lines 46 (get_current_time) and 53 (is_daytime) found it, self.is_modified of
\* line 61 and self.time_offset of lines 62 and 63
get_clock_data_read(node, t, reads) ==
  [get_clock_data([node EXCEPT !.time_offset = reads[1]], t, t) EXCEPT
     !.is_day = is_daytime([node EXCEPT !.time_offset = reads[2]], t),
     !.is_modified = reads[3],
     !.offset_hours = offset_hours(reads[4]),
     !.offset_minutes = offset_minutes(reads[5])]

\* a thread takes a request; clock is what get_clock_at_index gave it, and the
\* thread goes to the line pc, or to its return with the answer error if clock
\* is None
received(op, args, clock, pc, error) ==
  IF clock = None
  THEN [Idle EXCEPT !.op = op, !.pc = "return", !.args = args, !.data = <<error>>]
  ELSE [Idle EXCEPT !.op = op, !.pc = pc, !.args = args, !.clock = clock]

\* lines 346-354
receive_update_clock_time ==
  /\ \E w \in Workers, index \in RaceIndexArgs, hours_offset \in RaceHours :
       /\ workers[w].op = "idle"
       /\ workers' = [workers EXCEPT ![w] =
                        received("update_clock_time", <<index, hours_offset, 0>>,
                                 get_clock_at_index(clock_list, index), "31",
                                 [status |-> 400, error |-> "Invalid clock index"])]
  /\ UNCHANGED <<clock_list, now, ticks, result, current_clock_index, navigated>>

\* lines 372-378
receive_reset_clock_time ==
  /\ \E w \in Workers, index \in RaceIndexArgs :
       /\ workers[w].op = "idle"
       /\ workers' = [workers EXCEPT ![w] =
                        received("reset_clock_time", <<index>>,
                                 get_clock_at_index(clock_list, index), "36",
                                 [status |-> 400, error |-> "Invalid clock index"])]
  /\ UNCHANGED <<clock_list, now, ticks, result, current_clock_index, navigated>>

\* lines 276-279
receive_get_current_clock ==
  /\ \E w \in Workers :
       /\ workers[w].op = "idle"
       /\ workers' = [workers EXCEPT ![w] =
                        received("get_current_clock", <<current_clock_index>>,
                                 get_clock_at_index(clock_list, current_clock_index),
                                 "46", not_found)]
  /\ UNCHANGED <<clock_list, now, ticks, result, current_clock_index, navigated>>

\* line 31 of set_time_offset, line 36 of reset_time_offset
write_time_offset ==
  /\ \E w \in Workers :
       LET worker == workers[w]
           node == clock_list.nodes[worker.clock]
       IN /\ worker.pc \in {"31", "36"}
          /\ clock_list' =
               [clock_list EXCEPT !.nodes[worker.clock].time_offset =
                  IF worker.pc = "31"
                  THEN set_time_offset(node, worker.args[2], worker.args[3]).time_offset
                  ELSE reset_time_offset(node).time_offset]
          /\ workers' = [workers EXCEPT ![w].pc = IF worker.pc = "31" THEN "32" ELSE "37"]
  /\ UNCHANGED <<now, ticks, result, current_clock_index, navigated>>

\* line 32 of set_time_offset, line 37 of reset_time_offset; the handler then
\* calls get_clock_data (lines 356 and 380)
write_is_modified ==
  /\ \E w \in Workers :
       LET worker == workers[w]
           node == clock_list.nodes[worker.clock]
       IN /\ worker.pc \in {"32", "37"}
          /\ clock_list' =
               [clock_list EXCEPT !.nodes[worker.clock].is_modified =
                  IF worker.pc = "32"
                  THEN set_time_offset(node, worker.args[2], worker.args[3]).is_modified
                  ELSE reset_time_offset(node).is_modified]
          /\ workers' = [workers EXCEPT ![w].pc = "46"]
  /\ UNCHANGED <<now, ticks, result, current_clock_index, navigated>>

\* the line of get_clock_data that reads the record after the line pc
line_after(pc) ==
  CASE pc = "46" -> "53"
    [] pc = "53" -> "61"
    [] pc = "61" -> "62"
    [] pc = "62" -> "63"
    [] pc = "63" -> "theme"

\* lines 46, 53, 61, 62 and 63: one attribute of the record is read
read_attribute ==
  /\ \E w \in Workers :
       LET worker == workers[w]
           node == clock_list.nodes[worker.clock]
       IN /\ worker.pc \in {"46", "53", "61", "62", "63"}
          /\ workers' = [workers EXCEPT
                           ![w].reads = Append(worker.reads,
                                               IF worker.pc = "61" THEN node.is_modified
                                               ELSE node.time_offset),
                           ![w].pc = line_after(worker.pc)]
  /\ UNCHANGED <<clock_list, now, ticks, result, current_clock_index, navigated>>

\* lines 281, 357 and 381 read the record once more for the theme; the answer of
\* lines 283-289, 359-364 and 383-388 is made
read_theme ==
  /\ \E w \in Workers :
       LET worker == workers[w]
           node == clock_list.nodes[worker.clock]
           clock_data == get_clock_data_read(node, now, worker.reads)
           theme == IF is_daytime(node, now) THEN "day" ELSE "night"
       IN /\ worker.pc = "theme"
          /\ workers' = [workers EXCEPT
                           ![w].pc = "return",
                           ![w].data =
                             IF worker.op = "get_current_clock"
                             THEN <<[status |-> 200, clock |-> clock_data, theme |-> theme,
                                     index |-> current_clock_index,
                                     total |-> clock_list.clock_count]>>
                             ELSE <<[status |-> 200, success |-> TRUE,
                                     clock |-> clock_data, theme |-> theme]>>]
  /\ UNCHANGED <<clock_list, now, ticks, result, current_clock_index, navigated>>

\* the number of requests the threads have been sent
requests_sent ==
  navigated.next + navigated.previous
    + Cardinality({w \in Workers : workers[w].op # "idle"})

\* line 297
receive_get_next_clock ==
  /\ requests_sent < MaxRequests
  /\ \E w \in Workers :
       /\ workers[w].op = "idle"
       /\ workers' = [workers EXCEPT ![w] =
                        received("get_next_clock", <<current_clock_index>>,
                                 get_clock_at_index(clock_list, current_clock_index),
                                 "302", not_found)]
  /\ UNCHANGED <<clock_list, now, ticks, result, current_clock_index, navigated>>

\* line 323
receive_get_previous_clock ==
  /\ requests_sent < MaxRequests
  /\ \E w \in Workers :
       /\ workers[w].op = "idle"
       /\ workers' = [workers EXCEPT ![w] =
                        received("get_previous_clock", <<current_clock_index>>,
                                 get_clock_at_index(clock_list, current_clock_index),
                                 "328", not_found)]
  /\ UNCHANGED <<clock_list, now, ticks, result, current_clock_index, navigated>>

\* lines 302 and 328, the right-hand side: the global is loaded
load_current_clock_index ==
  /\ \E w \in Workers :
       /\ workers[w].pc \in {"302", "328"}
       /\ workers' = [workers EXCEPT
                        ![w].reads = <<current_clock_index>>,
                        ![w].pc = IF workers[w].pc = "302" THEN "302 store"
                                  ELSE "328 store"]
  /\ UNCHANGED <<clock_list, now, ticks, result, current_clock_index, navigated>>

\* lines 302 and 328, the assignment: the global is stored
store_current_clock_index ==
  /\ \E w \in Workers :
       LET worker == workers[w]
       IN /\ worker.pc \in {"302 store", "328 store"}
          /\ current_clock_index' =
               IF worker.pc = "302 store"
               THEN next_index(worker.reads[1], clock_list.clock_count)
               ELSE previous_index(worker.reads[1], clock_list.clock_count)
          /\ workers' = [workers EXCEPT
                           ![w].pc = IF worker.pc = "302 store" THEN "304" ELSE "330"]
  /\ UNCHANGED <<clock_list, now, ticks, result, navigated>>

\* lines 304-306 and 330-332: the neighbour of the record found at line 297 or
\* 323 is taken, and its snapshot and theme
read_neighbour ==
  /\ \E w \in Workers :
       LET worker == workers[w]
           node == clock_list.nodes[worker.clock]
       IN /\ worker.pc \in {"304", "330"}
          /\ workers' = [workers EXCEPT
                           ![w].clock = IF worker.pc = "304" THEN node.next_clock
                                        ELSE node.previous_clock,
                           ![w].pc = IF worker.pc = "304" THEN "311" ELSE "337"]
  /\ UNCHANGED <<clock_list, now, ticks, result, current_clock_index, navigated>>

\* lines 308-315 and 334-341: the answer is made, its index read from the global
read_index ==
  /\ \E w \in Workers :
       LET worker == workers[w]
           node == clock_list.nodes[worker.clock]
       IN /\ worker.pc \in {"311", "337"}
          /\ workers' = [workers EXCEPT
                           ![w].pc = "return",
                           ![w].data =
                             <<clock_answer(node, now, now, now, current_clock_index,
                                            clock_list.clock_count)
                               @@ [direction |-> IF worker.pc = "311" THEN "next"
                                                 ELSE "previous"]>>]
  /\ UNCHANGED <<clock_list, now, ticks, result, current_clock_index, navigated>>

\* the thread returns its answer and is free for the next request
respond ==
  /\ \E w \in Workers :
       /\ workers[w].pc = "return"
       /\ workers' = [workers EXCEPT ![w] = Idle]
       /\ navigated' =
            CASE workers[w].op = "get_next_clock" ->
                   [navigated EXCEPT !.next = @ + 1]
              [] workers[w].op = "get_previous_clock" ->
                   [navigated EXCEPT !.previous = @ + 1]
              [] OTHER -> navigated
  /\ UNCHANGED <<clock_list, now, ticks, result, current_clock_index>>

\* lines 260-269: get_all_clocks_data() reads the system clock twice for each
\* record, get_dominant_theme() then once for each; args holds the instants read.
\* The timestamp of the answer is the server's local time and is left out.
get_clocks ==
  /\ \E reads \in read_instants(now, 3 * clock_list.clock_count, ticks) :
       LET n == clock_list.clock_count
           clocks_data == get_all_clocks_data(clock_list, reads)
           theme == get_dominant_theme(clock_list, [i \in 1..n |-> reads[2 * n + i]])
           last == IF reads = <<>> THEN now ELSE reads[Len(reads)]
       IN /\ result' = [op |-> "get_clocks", args |-> <<reads>>, raised |-> "none",
                        value |-> <<[status |-> 200,
                                     clocks |-> clocks_data,
                                     theme |-> theme]>>]
          /\ now' = last
          /\ ticks' = ticks + (last - now)
  /\ UNCHANGED <<clock_list, current_clock_index, workers, navigated>>

\* lines 420-428
get_structure ==
  /\ result' = [op |-> "get_structure", args |-> <<>>, raised |-> "none",
                value |-> <<[status |-> 200,
                             structure |-> get_list_structure(clock_list),
                             total_nodes |-> clock_list.clock_count,
                             data_structure |-> "Doubly Circular Linked List"]>>]
  /\ UNCHANGED <<clock_list, now, ticks, current_clock_index, workers, navigated>>

\* the offsets set while the queries are watched: an hour and half an hour
update_clock_time_forward == update_clock_time_with({MaxOffsetHours}, {0, -30})

----------------------------------------------------------------------------
(* The link structure, as the claims speak of it *)

\* the node reached from node c by following previous_clock k times
RECURSIVE follow_previous(_, _, _)
follow_previous(nodes, c, k) ==
  IF k = 0 \/ c = None THEN c ELSE follow_previous(nodes, nodes[c].previous_clock, k - 1)

\* the records of the ring: those reached from the head by following next_clock
RingRecords(L) ==
  {follow_next(L.nodes, L.head_clock, k) : k \in 0..Len(L.nodes)} \ {None}

\* C1 (circularity): in a ring of n >= 1 records, following next_clock n times
\* from any record of the ring returns to that record, and so does following
\* previous_clock n times.
C1_Circularity ==
  LET n == clock_list.clock_count
  IN n >= 1 =>
       \A r \in RingRecords(clock_list) :
         /\ follow_next(clock_list.nodes, r, n) = r
         /\ follow_previous(clock_list.nodes, r, n) = r

C1_Witness ==
  /\ result.op = "add_clock"
  /\ result.raised = "none"
  /\ clock_list.clock_count = 3
  /\ Cardinality(RingRecords(clock_list)) = 3

\* C2 (double-link symmetry): no record of the ring has a None link, and for
\* every record r of the ring r.next_clock.previous_clock = r and
\* r.previous_clock.next_clock = r.
C2_LinkSymmetry ==
  \A r \in RingRecords(clock_list) :
    LET nodes == clock_list.nodes
    IN /\ nodes[r].next_clock # None
       /\ nodes[r].previous_clock # None
       /\ nodes[nodes[r].next_clock].previous_clock = r
       /\ nodes[nodes[r].previous_clock].next_clock = r

C2_Witness ==
  /\ result.op = "add_clock"
  /\ result.raised = "none"
  /\ clock_list.clock_count >= 2
  /\ clock_list.nodes[clock_list.head_clock].previous_clock # clock_list.head_clock

\* C3 (count consistency): clock_count is the number of distinct records
\* reached from the head, it is 0 exactly when there is no head, and a
\* successful add_clock increases it by exactly one.
C3_CountConsistent ==
  /\ [](/\ clock_list.clock_count = Cardinality(RingRecords(clock_list))
        /\ (clock_list.clock_count = 0 <=> clock_list.head_clock = None))
  /\ [][add_clock /\ result'.raised = "none"
          => clock_list'.clock_count = clock_list.clock_count + 1]_vars

C3_Witness ==
  /\ result.op = "add_clock"
  /\ result.raised = "none"
  /\ clock_list.clock_count >= 2
  /\ Cardinality(RingRecords(clock_list)) = clock_list.clock_count

\* C4 (append order): the i-th record appended (node i + 1) is the record at
\* index i; the head's next is the record at index 1 mod n and its previous the
\* record at index n - 1; and an add_clock keeps the head, once there is one,
\* keeps the record at every index below the old count, and puts the new record,
\* holding the arguments of the call, at the index of the old count.
C4_AppendOrder ==
  /\ [](LET L == clock_list
            n == L.clock_count
        IN n >= 1 =>
             /\ \A i \in 0..(n - 1) : get_clock_at_index(L, i) = i + 1
             /\ L.nodes[get_clock_at_index(L, 0)].next_clock
                  = get_clock_at_index(L, 1 % n)
             /\ L.nodes[get_clock_at_index(L, 0)].previous_clock
                  = get_clock_at_index(L, n - 1))
  /\ [][add_clock /\ result'.raised = "none"
          => LET n == clock_list.clock_count
                 r == get_clock_at_index(clock_list', n)
             IN /\ clock_list.head_clock # None
                     => clock_list'.head_clock = clock_list.head_clock
                /\ \A i \in 0..(n - 1) :
                     get_clock_at_index(clock_list', i) = get_clock_at_index(clock_list, i)
                /\ r = Len(clock_list.nodes) + 1
                /\ clock_list'.nodes[r].city_name = result'.args[1]
                /\ clock_list'.nodes[r].timezone_str = result'.args[2]
                /\ clock_list'.nodes[r].image_filename = result'.args[3]
                /\ clock_list'.nodes[clock_list'.head_clock].previous_clock = r]_vars

\* the scenario of the seed list: Colombia, United Kingdom, China in that order
C4_Witness ==
  LET L == clock_list
  IN /\ result.op = "add_clock"
     /\ L.clock_count = 3
     /\ [i \in 1..3 |-> L.nodes[get_clock_at_index(L, i - 1)].city_name]
          = <<"Colombia", "United Kingdom", "China">>
     /\ L.nodes[L.nodes[get_clock_at_index(L, 0)].next_clock].city_name = "United Kingdom"
     /\ L.nodes[L.nodes[get_clock_at_index(L, 0)].previous_clock].city_name = "China"

\* whether the index names no record of the ring
InvalidIndex(L, index) ==
  index < 0 \/ index >= L.clock_count \/ RingRecords(L) = {}

\* C5 (index validity): get_clock_at_index raises nothing, returns None for an
\* index below 0, at or above clock_count or on the empty ring, and a record of
\* the ring otherwise; calculate_time_difference returns None when one of its
\* indices is invalid and a report otherwise.
C5_IndexValidity ==
  /\ result.op = "get_clock_at_index" =>
       /\ result.raised = "none"
       /\ IF InvalidIndex(clock_list, result.args[1])
          THEN result.value[1] = None
          ELSE result.value[1] \in RingRecords(clock_list)
  /\ result.op = "calculate_time_difference" =>
       /\ result.raised = "none"
       /\ IF InvalidIndex(clock_list, result.args[1])
             \/ InvalidIndex(clock_list, result.args[2])
          THEN result.value = <<>>
          ELSE Len(result.value) = 1

\* the index equal to the count was asked for on a ring of two or more records
C5_Witness ==
  /\ result.op = "get_clock_at_index"
  /\ clock_list.clock_count >= 2
  /\ result.args[1] = clock_list.clock_count
  /\ result.value[1] = None

\* whether every node ever allocated is a record of the ring with both links set
FullyLinked(L) ==
  \A k \in 1..Len(L.nodes) :
    /\ k \in RingRecords(L)
    /\ L.nodes[k].next_clock # None
    /\ L.nodes[k].previous_clock # None

\* C6 (append atomicity): an add_clock with a timezone identifier pytz does not
\* know raises and leaves the list (head, count, every node and link) as it
\* was; an add_clock that raises nothing has a known timezone; and after an
\* add_clock, raising or not, no node is left partly linked.
C6_AppendAtomic ==
  [][add_clock =>
       /\ ~pytz_timezone_known(result'.args[2]) <=> result'.raised # "none"
       /\ result'.raised # "none" => clock_list' = clock_list
       /\ FullyLinked(clock_list')]_vars

C6_Witness ==
  /\ result.op = "add_clock"
  /\ result.raised = "UnknownTimeZoneError"
  /\ clock_list.clock_count >= 2

----------------------------------------------------------------------------
(* The offsets and the theme, as the claims speak of them *)

\* C7 (modification flag): after any calls of set_time_offset and
\* reset_time_offset, a record's is_modified is true if and only if its
\* time_offset is not zero.
C7_ModifiedIffOffset ==
  \A r \in RingRecords(clock_list) :
    clock_list.nodes[r].is_modified <=> clock_list.nodes[r].time_offset # 0

\* C8 (offset decomposition): the offset_hours and offset_minutes of the snapshot
\* taken after set_time_offset(hours, minutes) give back the offset
\* (offset_hours * 60 + offset_minutes is the offset in minutes), and neither has
\* the sign opposite to the offset's.
C8_OffsetDecomposition ==
  (result.op = "update_clock_time" /\ result.value[1].status = 200) =>
    LET clock == result.value[1].clock
        offset == result.args[2] * 60 + result.args[3]
    IN /\ clock.offset_hours * 60 + clock.offset_minutes = offset
       /\ offset < 0 => (clock.offset_hours <= 0 /\ clock.offset_minutes <= 0)
       /\ offset > 0 => (clock.offset_hours >= 0 /\ clock.offset_minutes >= 0)

\* C9 (offset idempotence): on every record, whatever its state,
\* set_time_offset(0, 0) gives a zero time_offset and is_modified false,
\* reset_time_offset gives a zero time_offset and is_modified false, and a second
\* reset_time_offset changes nothing more; the record a reset request names is
\* left so, and its snapshot says so.
C9_OffsetIdempotence ==
  /\ \A r \in RingRecords(clock_list) :
       LET node == clock_list.nodes[r]
           zeroed == set_time_offset(node, 0, 0)
           once == reset_time_offset(node)
           twice == reset_time_offset(once)
       IN /\ zeroed.time_offset = 0 /\ ~zeroed.is_modified
          /\ once.time_offset = 0 /\ ~once.is_modified
          /\ twice = once
  /\ (result.op = "reset_clock_time" /\ result.value[1].status = 200) =>
       LET node == clock_list.nodes[get_clock_at_index(clock_list, result.args[1])]
       IN /\ node.time_offset = 0 /\ ~node.is_modified
          /\ ~result.value[1].clock.is_modified
          /\ result.value[1].clock.offset_hours = 0
          /\ result.value[1].clock.offset_minutes = 0
  /\ (result.op = "update_clock_time" /\ result.value[1].status = 200
      /\ result.args[2] = 0 /\ result.args[3] = 0) =>
       LET node == clock_list.nodes[get_clock_at_index(clock_list, result.args[1])]
       IN node.time_offset = 0 /\ ~node.is_modified

\* a record was reset while another record is still set off
C9_Witness ==
  /\ result.op = "reset_clock_time"
  /\ result.value[1].status = 200
  /\ ~clock_list.nodes[get_clock_at_index(clock_list, result.args[1])].is_modified
  /\ \E r \in RingRecords(clock_list) :
       clock_list.nodes[r].is_modified /\ clock_list.nodes[r].time_offset < 0

\* the number of records of L that are in daytime, the record at index i - 1 being
\* asked at the instant reads[i]
DaytimeRecords(L, reads) ==
  Cardinality({i \in 1..L.clock_count :
                 is_daytime(L.nodes[get_clock_at_index(L, i - 1)], reads[i])})

\* C10 (dominant theme): get_dominant_theme returns "day" exactly when twice the
\* number of daytime records is at least clock_count, and "night" otherwise; so
\* a tie and the empty ring give "day".
C10_DominantTheme ==
  result.op = "get_dominant_theme" =>
    result.value[1]
      = (IF 2 * DaytimeRecords(clock_list, result.args[1]) >= clock_list.clock_count
         THEN "day" ELSE "night")

\* the tie: one of two records in daytime, and the answer is "day"
C10_Witness ==
  /\ result.op = "get_dominant_theme"
  /\ clock_list.clock_count = 2
  /\ DaytimeRecords(clock_list, result.args[1]) = 1
  /\ result.value[1] = "day"

\* C11 (difference sign convention): the report of difference(a, b) carries
\* diff = (hour_b - hour_a) + (minute_b - minute_a) / 60 of the fields read,
\* rounded to the nearest hundredth; its text ends in "ahead" exactly when
\* diff > 0 and in "behind" otherwise, so for a = b; and difference(b, a) on the
\* same fields reports the negated number, with the other direction when
\* diff # 0.
C11_DifferenceSign ==
  (result.op = "compare_timezones" /\ result.value[1].status = 200) =>
    LET L == clock_list
        a == result.args[1]
        b == result.args[2]
        t1 == result.args[3][1]
        t2 == result.args[3][2]
        time_a == get_current_time(L.nodes[get_clock_at_index(L, a)], t1)
        time_b == get_current_time(L.nodes[get_clock_at_index(L, b)], t2)
        diff_minutes == 60 * (hour_of(time_b) - hour_of(time_a))
                        + (minute_of(time_b) - minute_of(time_a))
        report == result.value[1].comparison
        reverse == calculate_time_difference(L, b, a, t2, t1)[1]
    IN /\ report.diff_minutes = diff_minutes
       /\ 100 * diff_minutes - 60 * report.difference_hours \in -30..30
       /\ report.direction = (IF diff_minutes > 0 THEN "ahead" ELSE "behind")
       /\ (a = b /\ t1 = t2) => report.direction = "behind"
       /\ reverse.difference_hours = 0 - report.difference_hours
       /\ diff_minutes # 0 => reverse.direction # report.direction
       /\ diff_minutes = 0 => reverse.direction = "behind"

\* Colombia against the United Kingdom, five hours higher: 5.0 and "ahead"
C11_Witness ==
  /\ result.op = "compare_timezones"
  /\ result.value[1].status = 200
  /\ result.args[1] # result.args[2]
  /\ result.value[1].comparison.diff_minutes = 300
  /\ result.value[1].comparison.difference_hours = 500
  /\ result.value[1].comparison.direction = "ahead"

\* C12 (meeting search): on a non-empty ring the search returns, in ascending
\* order and once each, exactly the hours h of 0..23 with start_hour <= h <
\* end_hour; each comes with one entry for each record, in ring order, showing
\* h:00 whatever the record's timezone and offset, and with quality
\* "excellent".  So the defaults (9, 17) give 9..16, and start_hour >= end_hour
\* gives nothing.
C12_MeetingSearch ==
  (result.op = "get_meeting_times" /\ clock_list.clock_count >= 1) =>
    LET L == clock_list
        found == result.value[1].optimal_times
        start_hour == result.args[1]
        end_hour == result.args[2]
    IN /\ {found[k].reference_hour : k \in 1..Len(found)}
            = {h \in 0..23 : start_hour <= h /\ h < end_hour}
       /\ \A k \in 1..(Len(found) - 1) :
            found[k].reference_hour < found[k + 1].reference_hour
       /\ result.value[1].total_options = Len(found)
       /\ \A k \in 1..Len(found) :
            LET h == found[k].reference_hour
            IN /\ found[k].quality = "excellent"
               /\ Len(found[k].times) = L.clock_count
               /\ \A i \in 1..L.clock_count :
                    /\ found[k].times[i].city
                         = L.nodes[get_clock_at_index(L, i - 1)].city_name
                    /\ found[k].times[i].hour = h
                    /\ found[k].times[i].time
                         = <<IF h % 12 = 0 THEN 12 ELSE h % 12, 0,
                             IF h < 12 THEN "AM" ELSE "PM">>
       /\ (start_hour = 9 /\ end_hour = 17) =>
            [k \in 1..Len(found) |-> found[k].reference_hour]
              = <<9, 10, 11, 12, 13, 14, 15, 16>>
       /\ start_hour >= end_hour => found = <<>>

\* the defaults on the whole seeded ring, one of its records set off
C12_Witness ==
  /\ result.op = "get_meeting_times"
  /\ result.args = <<9, 17>>
  /\ clock_list.clock_count = 3
  /\ \E r \in RingRecords(clock_list) : clock_list.nodes[r].time_offset > 0
  /\ Len(result.value[1].optimal_times) = 8
  /\ result.value[1].optimal_times[1].reference_hour = 9

\* C13 (empty-ring defaults): on a ring with no records get_clock_at_index
\* returns None for every index, get_dominant_theme returns "day", and
\* get_all_clocks_data, find_optimal_meeting_time and get_list_structure return
\* an empty list; none of the calls raises, and none changes the ring.
C13_EmptyRingDefaults ==
  clock_list.clock_count = 0 =>
    /\ clock_list = CircularClockList_init
    /\ result.raised = "none"
    /\ \A index \in -MaxClocks .. MaxClocks : get_clock_at_index(clock_list, index) = None
    /\ result.op = "get_clock_at_index" => result.value = <<None>>
    /\ result.op = "get_dominant_theme" => result.value = <<"day">>
    /\ result.op = "get_clocks" =>
         /\ result.value[1].clocks = <<>>
         /\ result.value[1].theme = "day"
    /\ result.op = "get_meeting_times" =>
         /\ result.value[1].optimal_times = <<>>
         /\ result.value[1].total_options = 0
    /\ result.op = "get_structure" => result.value[1].structure = <<>>

C13_Witness ==
  /\ clock_list.clock_count = 0
  /\ result.op = "get_structure"
  /\ result.value[1].structure = <<>>
  /\ result.value[1].total_nodes = 0

\* C15 (structure dump): for a ring of n >= 1 records get_list_structure returns
\* n entries in ring order from the head; entry i has index i, its next is the
\* city of entry (i + 1) mod n, its previous the city of entry (i - 1) mod n, and
\* is_head is true for entry 0 only.
C15_StructureDump ==
  (result.op = "get_structure" /\ clock_list.clock_count >= 1) =>
    LET structure == result.value[1].structure
        n == clock_list.clock_count
    IN /\ Len(structure) = n
       /\ \A i \in 0..(n - 1) :
            LET entry == structure[i + 1]
            IN /\ entry.index = i
               /\ entry.city
                    = clock_list.nodes[follow_next(clock_list.nodes,
                                                   clock_list.head_clock, i)].city_name
               /\ entry.next = structure[((i + 1) % n) + 1].city
               /\ entry.previous = structure[((i - 1) % n) + 1].city
               /\ entry.is_head = (i = 0)

C15_Witness ==
  /\ result.op = "get_structure"
  /\ clock_list.clock_count = 3
  /\ result.value[1].structure[1].previous = result.value[1].structure[3].city
  /\ result.value[1].structure[1].previous # result.value[1].structure[1].next
  /\ \E r \in RingRecords(clock_list) : clock_list.nodes[r].is_modified

\* C14 (angle bounds): a snapshot's hour is in 0..23, its minute and second in
\* 0..59; hour_angle is (hour mod 12) * 30 + minute * 0.5, minute_angle is
\* minute * 6 and second_angle is second * 6, and each of them is at least 0 and
\* less than 360.  hour_angle is held in half degrees.
C14_AngleBounds ==
  (result.op = "get_current_clock" /\ result.value[1].status = 200) =>
    LET clock == result.value[1].clock
    IN /\ clock.hour \in 0..23
       /\ clock.minute \in 0..59
       /\ clock.second \in 0..59
       /\ clock.hour_angle = (clock.hour % 12) * 60 + clock.minute
       /\ clock.minute_angle = clock.minute * 6
       /\ clock.second_angle = clock.second * 6
       /\ 0 <= clock.hour_angle /\ clock.hour_angle < 2 * 360
       /\ 0 <= clock.minute_angle /\ clock.minute_angle < 360
       /\ 0 <= clock.second_angle /\ clock.second_angle < 360

C14_Witness ==
  /\ result.op = "get_current_clock"
  /\ result.value[1].status = 200
  /\ result.value[1].clock.hour = 23
  /\ result.value[1].clock.minute = 59
  /\ result.value[1].clock.second = 59
  /\ result.value[1].clock.hour_angle = 2 * 360 - 1
  /\ result.value[1].clock.minute_angle = 354

\* the states of a record that set_time_offset(h, 0), h in RaceHours, and
\* reset_time_offset leave it in
SettledRecords(node) ==
  {reset_time_offset(node)} \cup {set_time_offset(node, h, 0) : h \in RaceHours}

\* C16 (concurrent offset mutation): when threads set and reset the offset of a
\* record while others take its snapshot, the is_modified, offset_hours and
\* offset_minutes of every snapshot are those of one state of the record, the one
\* before or the one after a mutation: never is_modified false with an offset,
\* nor is_modified true with none.
C16_SnapshotOfOneState ==
  \A w \in Workers :
    (workers[w].pc = "return" /\ workers[w].data[1].status = 200) =>
      LET clock == workers[w].data[1].clock
      IN \E record \in SettledRecords(clock_list.nodes[workers[w].clock]) :
           /\ clock.is_modified = record.is_modified
           /\ clock.offset_hours = offset_hours(record.time_offset)
           /\ clock.offset_minutes = offset_minutes(record.time_offset)

\* the operations that only ask
QueryOps ==
  {"get_clock_at_index", "calculate_time_difference", "get_dominant_theme",
   "get_clocks", "get_meeting_times", "get_structure"}

\* the fields of a record that no offset operation writes
unwritten(node) ==
  [city_name |-> node.city_name, timezone_str |-> node.timezone_str,
   image_filename |-> node.image_filename, next_clock |-> node.next_clock,
   previous_clock |-> node.previous_clock]

\* C17 (frame): setting and resetting the offset of one record changes only that
\* record's time_offset and is_modified; the head, the count, every record's links
\* and every other record are as before.  The queries change nothing of the ring.
C17_Frame ==
  [][/\ result'.op \in {"update_clock_time", "reset_clock_time"} =>
          LET index == result'.args[1]
              record == IF 0 <= index /\ index < clock_list.clock_count
                        THEN follow_next(clock_list.nodes, clock_list.head_clock, index)
                        ELSE None
          IN /\ clock_list'.head_clock = clock_list.head_clock
             /\ clock_list'.clock_count = clock_list.clock_count
             /\ Len(clock_list'.nodes) = Len(clock_list.nodes)
             /\ \A r \in 1..Len(clock_list.nodes) :
                  /\ unwritten(clock_list'.nodes[r]) = unwritten(clock_list.nodes[r])
                  /\ r # record => clock_list'.nodes[r] = clock_list.nodes[r]
     /\ result'.op \in QueryOps => clock_list' = clock_list]_vars

C17_Witness ==
  /\ clock_list.clock_count = 3
  /\ result.op = "update_clock_time"
  /\ result.args[1] = 1
  /\ result.value[1].status = 200
  /\ clock_list.nodes[2].time_offset # 0
  /\ clock_list.nodes[1].time_offset = 0
  /\ clock_list.nodes[3].is_modified

NavigationOps == {"get_next_clock", "get_previous_clock"}

\* the cursor after k requests of one kind, next (forward) or previous
RECURSIVE index_after(_, _, _, _)
index_after(index, clock_count, k, forward) ==
  IF k = 0
  THEN index
  ELSE index_after(IF forward THEN next_index(index, clock_count)
                   ELSE previous_index(index, clock_count),
                   clock_count, k - 1, forward)

\* what C18 says of a state
CursorInRing ==
  LET L == clock_list
  IN /\ L.clock_count >= 1 =>
          /\ current_clock_index \in 0..(L.clock_count - 1)
          /\ index_after(current_clock_index, L.clock_count, L.clock_count, TRUE)
               = current_clock_index
          /\ index_after(current_clock_index, L.clock_count, L.clock_count, FALSE)
               = current_clock_index
     /\ result.op \in NavigationOps =>
          IF L.clock_count = 0
          THEN /\ result.value[1].status = 404
               /\ current_clock_index = result.args[1]
          ELSE /\ result.value[1].status = 200
               /\ result.value[1].index = current_clock_index
               /\ result.value[1].clock.city
                    = L.nodes[get_clock_at_index(L, current_clock_index)].city_name

\* what C18 says of a request
CursorMoved ==
  clock_list.clock_count >= 1 =>
    /\ result'.op = "get_next_clock" =>
         current_clock_index'
           = index_after(current_clock_index, clock_list.clock_count, 1, TRUE)
    /\ result'.op = "get_previous_clock" =>
         current_clock_index'
           = index_after(current_clock_index, clock_list.clock_count, 1, FALSE)
    /\ (result.op \in NavigationOps /\ result'.op \in NavigationOps
        /\ result'.op # result.op) =>
         current_clock_index' = result.args[1]

\* C18 (cursor navigation, one request at a time): on a ring with records the
\* cursor stays within 0 .. clock_count - 1; the clock a next or previous request
\* answers with is the record at the new cursor; a next and a previous request in
\* a row, in either order, leave the cursor where it was, and clock_count next
\* requests, or clock_count previous requests, bring it back.  On the empty ring
\* both requests answer 404 and leave the cursor as it was.
C18_CursorNavigation == []CursorInRing /\ [][CursorMoved]_vars

C18_Witness ==
  /\ clock_list.clock_count = 3
  /\ result.op = "get_previous_clock"
  /\ result.args = <<0>>
  /\ current_clock_index = 2
  /\ result.value[1].clock.city = "China"

\* C19 (cursor navigation by threads): when threads handle next and previous
\* requests over the one global cursor, the index of every answer is the ring
\* index of the clock it answers with, and once all requests are answered the
\* cursor has moved by the number of next requests less the number of previous
\* requests, modulo clock_count: no step is lost.
C19_ConcurrentNavigation ==
  /\ \A w \in Workers :
       (workers[w].pc = "return" /\ workers[w].op \in NavigationOps
        /\ workers[w].data[1].status = 200) =>
         workers[w].data[1].clock.city
           = clock_list.nodes[get_clock_at_index(clock_list,
                                                 workers[w].data[1].index)].city_name
  /\ (\A w \in Workers : workers[w] = Idle) =>
       current_clock_index
         = (navigated.next - navigated.previous) % clock_list.clock_count

\* C20 (snapshot self-consistency): in every snapshot is_day is true exactly when
\* the hour of that snapshot is at least 6 and less than 18, though the system
\* clock may advance between the read for the hour and the read for is_day.
C20_SnapshotSelfConsistent ==
  (/\ result.op \in NavigationOps \cup {"get_current_clock"}
   /\ result.value[1].status = 200) =>
    LET clock == result.value[1].clock
    IN clock.is_day = (6 <= clock.hour /\ clock.hour < 18)

----------------------------------------------------------------------------

Init ==
  /\ clock_list = CircularClockList_init
  /\ now \in StartTimes
  /\ ticks = 0
  /\ result = NoResult
  /\ NoRequests

Next == add_clock \/ at \/ difference

Spec == Init /\ [][Next]_vars

\* the records' offsets: the ring as the module builds it, then offsets set and
\* reset, with the system clock held at one instant (ticks = MaxTicks: no advance)
InitSeeded ==
  /\ clock_list = seeded(Len(Seeds))
  /\ now \in {t \in StartTimes : hour_of(t) = 10}
  /\ ticks = MaxTicks
  /\ result = NoResult
  /\ NoRequests

NextOffset == update_clock_time \/ reset_clock_time

SpecOffset == InitSeeded /\ [][NextOffset]_vars

\* the theme: rings of every size, their records in the seeds' timezones, and the
\* system clock advancing between and within the calls
NextTheme == add_clock \/ dominant_theme \/ Tick

SpecTheme == Init /\ [][NextTheme]_vars

\* the offsets a record may carry: those set_time_offset gives it
with_offsets(L, f) ==
  [L EXCEPT !.nodes = [k \in 1..Len(L.nodes) |->
                         set_time_offset(L.nodes[k], f[k][1], f[k][2])]]

\* (hours, minutes) a record is set off by before it is compared: not at all, by
\* half an hour back, and by what brings Bogota and Shanghai to London's hour
OffsetPairs == {<<0, 0>>, <<0, -30>>, <<5, 0>>, <<-8, 0>>}

\* the comparison: the seeded ring, each record set off by one of OffsetPairs, and
\* the system clock advancing within the calls
InitOffsets ==
  /\ clock_list \in {with_offsets(seeded(Len(Seeds)), f) :
                       f \in [1..Len(Seeds) -> OffsetPairs]}
  /\ now \in StartTimes
  /\ ticks = 0
  /\ result = NoResult
  /\ NoRequests

NextCompare == compare_timezones

SpecCompare == InitOffsets /\ [][NextCompare]_vars

\* (hours, minutes) a record is set off by before a search: not at all, or by
\* four and a half hours
SearchOffsetPairs == {<<0, 0>>, <<5, -30>>}

\* the rings of the start-up: the first k seeds appended, each record then set
\* off by one of SearchOffsetPairs
InitPrefixes ==
  /\ clock_list \in {with_offsets(seeded(k), f) :
                       k \in 0..Len(Seeds), f \in [1..Len(Seeds) -> SearchOffsetPairs]}
  /\ now \in StartTimes
  /\ ticks = 0
  /\ result = NoResult
  /\ NoRequests

NextMeeting == get_meeting_times

SpecMeeting == InitPrefixes /\ [][NextMeeting]_vars

\* the queries and the offsets together: the rings of the start-up, the system
\* clock held at one instant
InitQueries ==
  /\ clock_list \in {seeded(k) : k \in 0..Len(Seeds)}
  /\ now \in {t \in StartTimes : hour_of(t) = 10}
  /\ ticks = MaxTicks
  /\ result = NoResult
  /\ NoRequests

NextQueries ==
  \/ at
  \/ difference
  \/ dominant_theme
  \/ get_clocks
  \/ get_meeting_times
  \/ get_structure
  \/ update_clock_time_forward
  \/ reset_clock_time

SpecQueries == InitQueries /\ [][NextQueries]_vars

\* every second of a day
DayInstants == 0 .. (24 * 3600 - 1)

\* the hands: the ring of the start-up asked for the clock under the cursor at
\* every second of a day, the system clock held still within a request
InitDay ==
  /\ clock_list = seeded(Len(Seeds))
  /\ now \in DayInstants
  /\ ticks = MaxTicks
  /\ result = NoResult
  /\ NoRequests

NextAngles == get_current_clock

SpecAngles == InitDay /\ [][NextAngles]_vars

\* the threads at one record: the ring of the start-up, requests that set, reset
\* and show the offset of the head record, the system clock held at one instant
InitThreads ==
  /\ clock_list = seeded(Len(Seeds))
  /\ now \in {t \in StartTimes : hour_of(t) = 0}
  /\ ticks = MaxTicks
  /\ result = NoResult
  /\ NoRequests

NextRace ==
  \/ receive_update_clock_time
  \/ receive_reset_clock_time
  \/ receive_get_current_clock
  \/ write_time_offset
  \/ write_is_modified
  \/ read_attribute
  \/ read_theme
  \/ respond

SpecRace == InitThreads /\ [][NextRace]_vars

\* the cursor: the rings of the start-up, requests for the clock under the
\* cursor, the next and the previous one, the system clock advancing within them
InitCursor ==
  /\ clock_list \in {seeded(k) : k \in 0..Len(Seeds)}
  /\ now \in StartTimes
  /\ ticks = 0
  /\ result = NoResult
  /\ NoRequests

NextCursor == get_current_clock \/ get_next_clock \/ get_previous_clock

SpecCursor == InitCursor /\ [][NextCursor]_vars

\* the threads at the cursor: the ring of the start-up, next and previous
\* requests, the system clock held at one instant
NextNavigate ==
  \/ receive_get_next_clock
  \/ receive_get_previous_clock
  \/ load_current_clock_index
  \/ store_current_clock_index
  \/ read_neighbour
  \/ read_index
  \/ respond

SpecNavigate == InitThreads /\ [][NextNavigate]_vars

====
